---- MODULE Spec2Model ----
(***************************************************************************)
(* gotestdeps: the module dependency graph of a Go module, with the        *)
(* modules that are present only because of tests marked.                   *)
(*                                                                         *)
(* The repository holds two revisions of the program: src/unnamed/part_000 *)
(* (mermaid output, three classification groups) and src/main.go (one      *)
(* "red" group).  traverse, buildEdges, modulePathOf and difference are     *)
(* the same text in both; the revisions differ in writeDot and in the      *)
(* main-module bookkeeping of loadModuleSet.                               *)
(*                                                                         *)
(* A string is modelled as the sequence of its bytes (small naturals), so  *)
(* that sort.Strings is the bytewise lexicographic order it is in Go.      *)
(* A *packages.Package is a number of Pkgs; the nil pointer is 0.           *)
(***************************************************************************)
EXTENDS Integers, Sequences, FiniteSets, TLC

\* Largest number of entries in one package's Imports map.
MaxImports == 2
\* Largest number of import entries in a graph given to traverse alone.
MaxEntries == 4
\* Largest number of roots given to traverse alone.
MaxRoots == 2
\* Largest number of import entries in the graph of a run of main.
MaxRunEntries == 3
\* Largest number of roots one packages.Load call of a run returns.
MaxRunRoots == 1
\* Largest number of edges in an edges map handed to writeDot alone.
MaxDotEdges == 1

nil == 0
\* The package objects (pointers) the resolver can return.
Pkgs == 1..3

\* The empty string.
EmptyStr == <<>>
\* Module paths the resolver can report: "", "a", "ab", "b".
Paths == {<<>>, <<1>>, <<1, 2>>, <<2>>}

\* No module descriptor (p.Module == nil).
NoModule == [present |-> FALSE, Path |-> EmptyStr, Main |-> FALSE]
\* The descriptors with p.Module != nil.
ModuleDescs == [present : {TRUE}, Path : Paths, Main : BOOLEAN]

VARIABLES
    Module,       \* resolver: Pkgs -> descriptor (p.Module)
    Imports,      \* resolver: Pkgs -> the values of p.Imports (targets or nil)
    roots,        \* traverse: its roots argument
    seen,         \* traverse: the seen map, as the set of its keys
    q,            \* traverse: the work list, front first
    visits,       \* traverse: the packages visit was called with, in order
    discards,     \* traverse: number of dequeued entries dropped as seen
    tpc,          \* traverse: position ("start", "loop", "done")
    pc,           \* main: position
    mainMod,      \* main: mainMod
    noTestPkgs,   \* roots returned by Load(Tests=false) (dropped by main)
    noTestMods,   \* main: noTestMods
    testPkgs,     \* main: testPkgs
    withTestMods, \* main: withTestMods
    testOnly,     \* main: testOnly
    edges,        \* main: edges, a function from-module -> set of to-modules
    nodes,        \* main: nodes
    out,          \* the lines written to os.Stdout
    prog,         \* which revision's writeDot wrote out
    loadErr,      \* the loads (by Tests flag) that reported an error
    loadCalls     \* how often packages.Load was called, by Tests flag

vars == <<Module, Imports, roots, seen, q, visits, discards, tpc, pc, mainMod,
          noTestPkgs, noTestMods, testPkgs, withTestMods, testOnly, edges,
          nodes, out, prog, loadErr, loadCalls>>

travVars == <<roots, seen, q, visits, discards, tpc>>
mainVars == <<pc, mainMod, noTestPkgs, noTestMods, testPkgs, withTestMods,
              testOnly, edges, nodes, out, prog, loadErr, loadCalls>>

-----------------------------------------------------------------------------
(* Helpers *)

\* All sequences over S of length lo..hi.
SeqsOf(S, lo, hi) == UNION {[1..n -> S] : n \in lo..hi}

\* The orders in which a range over a map of n entries can yield them.
RangeOrders(n) == {f \in [1..n -> 1..n] : \A i, j \in 1..n : f[i] = f[j] => i = j}

\* The orders in which a range over a map with key set S can yield the keys.
KeyOrders(S) ==
    {f \in [1..Cardinality(S) -> S] :
        \A i, j \in 1..Cardinality(S) : f[i] = f[j] => i = j}

\* The values an Imports map can hold.  The keys (import paths) are never
\* read (`for _, imp := range p.Imports`), so a map is given by its values,
\* listed in non-decreasing order; the order of a range over it is free.
ImportMaps ==
    {s \in SeqsOf(Pkgs \cup {nil}, 0, MaxImports) :
        \A i \in 1..(Len(s) - 1) : s[i] <= s[i + 1]}

\* The import graphs with at most n import entries in all.
Graphs(n) ==
    {g \in [Pkgs -> ImportMaps] :
        Len(g[1]) + Len(g[2]) + Len(g[3]) <= n}

\* The non-nil values of p.Imports.
ImportsOf(p) == {Imports[p][i] : i \in 1..Len(Imports[p])} \ {nil}

RECURSIVE ReachFrom(_)
\* The packages reachable from the set S through non-nil import entries.
ReachFrom(S) ==
    LET T == S \cup UNION {ImportsOf(p) : p \in S}
    IN IF T = S THEN S ELSE ReachFrom(T)

\* The set of elements of a sequence.
Range(s) == {s[i] : i \in 1..Len(s)}

\* How often x occurs in the sequence s.
Count(s, x) == Cardinality({i \in 1..Len(s) : s[i] = x})

-----------------------------------------------------------------------------
(* traverse *)

RECURSIVE PushImports(_, _, _, _)
\* `for _, imp := range p.Imports { if imp != nil { q.PushBack(imp) } }`,
\* the range yielding the entries in the order ord, from its i-th on.
PushImports(queue, imps, ord, i) ==
    IF i > Len(ord) THEN queue
    ELSE PushImports(IF imps[ord[i]] # nil THEN Append(queue, imps[ord[i]])
                     ELSE queue,
                     imps, ord, i + 1)

\* A traverse loop body that drops a seen package without dequeuing it.
TraverseIterPeek(st, ord) ==
    LET p == st.q[Len(st.q)]
        rest == SubSeq(st.q, 1, Len(st.q) - 1)
    IN IF p \in st.seen
       THEN st
       ELSE [seen |-> st.seen \cup {p},
             q |-> PushImports(rest, Imports[p], ord, 1),
             visits |-> Append(st.visits, p),
             discards |-> st.discards]

\* A traverse loop body without the seen check.
TraverseIterNoSeen(st, ord) ==
    LET p == st.q[Len(st.q)]
        rest == SubSeq(st.q, 1, Len(st.q) - 1)
    IN [seen |-> st.seen \cup {p},
        q |-> PushImports(rest, Imports[p], ord, 1),
        visits |-> Append(st.visits, p),
        discards |-> st.discards]

\* One iteration of `for q.Len() > 0`: remove the back of the list; drop it
\* if seen, else mark it, visit it and push its non-nil imports.
TraverseIter(st, ord) ==
    LET p == st.q[Len(st.q)]
        rest == SubSeq(st.q, 1, Len(st.q) - 1)
    IN IF p \in st.seen
       THEN [st EXCEPT !.q = rest, !.discards = @ + 1]
       ELSE [seen |-> st.seen \cup {p},
             q |-> PushImports(rest, Imports[p], ord, 1),
             visits |-> Append(st.visits, p),
             discards |-> st.discards]

\* The state of traverse after its roots are pushed.
TraverseStart(rs) == [seen |-> {}, q |-> rs, visits |-> <<>>, discards |-> 0]

RECURSIVE TraverseRun(_, _)
\* The loop run to its end; ords[p] is the order the range over p.Imports
\* yields its entries in (a package's imports are ranged over at most once).
TraverseRun(st, ords) ==
    IF st.q = <<>> THEN st
    ELSE TraverseRun(TraverseIter(st, ords[st.q[Len(st.q)]]), ords)

\* The sequence of visit calls traverse(rs, visit) makes.
traverse(rs, ords) == TraverseRun(TraverseStart(rs), ords).visits

\* A choice of range order for every package's Imports.
ImportOrders == {o \in [Pkgs -> UNION {RangeOrders(n) : n \in 0..MaxImports}] :
                    \A p \in Pkgs : Len(o[p]) = Len(Imports[p])}

-----------------------------------------------------------------------------
(* traverse, one loop iteration per step *)

MainIdle ==
    /\ pc = "idle"
    /\ mainMod = EmptyStr
    /\ noTestPkgs = <<>>
    /\ noTestMods = {}
    /\ testPkgs = <<>>
    /\ withTestMods = {}
    /\ testOnly = {}
    /\ edges = <<>>
    /\ nodes = {}
    /\ out = <<>>
    /\ prog = "none"
    /\ loadErr = {}
    /\ loadCalls = [t \in BOOLEAN |-> 0]

InitTraverse ==
    /\ Module = [p \in Pkgs |-> NoModule]
    /\ Imports \in Graphs(MaxEntries)
    /\ roots \in SeqsOf(Pkgs, 1, MaxRoots)
    /\ seen = {}
    /\ q = <<>>
    /\ visits = <<>>
    /\ discards = 0
    /\ tpc = "start"
    /\ MainIdle

\* `seen := make(...)`, `q := list.New()`, and the roots pushed.
TraverseEnter ==
    /\ tpc = "start"
    /\ q' = TraverseStart(roots).q
    /\ tpc' = "loop"
    /\ UNCHANGED <<Module, Imports, roots, seen, visits, discards, mainVars>>

\* One iteration of the loop.
TraverseLoop ==
    /\ tpc = "loop"
    /\ q # <<>>
    /\ \E ord \in RangeOrders(Len(Imports[q[Len(q)]])) :
          LET st == TraverseIter([seen |-> seen, q |-> q, visits |-> visits,
                                  discards |-> discards], ord)
          IN /\ seen' = st.seen
             /\ q' = st.q
             /\ visits' = st.visits
             /\ discards' = st.discards
    /\ UNCHANGED <<Module, Imports, roots, tpc, mainVars>>

\* The loop condition fails: traverse returns.
TraverseReturn ==
    /\ tpc = "loop"
    /\ q = <<>>
    /\ tpc' = "done"
    /\ UNCHANGED <<Module, Imports, roots, seen, q, visits, discards, mainVars>>

NextTraverse == TraverseEnter \/ TraverseLoop \/ TraverseReturn

SpecTraverse == InitTraverse /\ [][NextTraverse]_vars

\* traverse is sequential code: while a step is possible, one is taken.
FairSpecTraverse == SpecTraverse /\ WF_vars(NextTraverse)

-----------------------------------------------------------------------------
(* Strings and sort.Strings *)

RECURSIVE StrLess(_, _)
\* Go's s < t on strings: bytewise lexicographic, a proper prefix first.
StrLess(s, t) ==
    IF s = <<>> THEN t # <<>>
    ELSE IF t = <<>> THEN FALSE
    ELSE IF Head(s) # Head(t) THEN Head(s) < Head(t)
    ELSE StrLess(Tail(s), Tail(t))

\* x put into the ascending sequence s, after the elements not above it.
InsertSorted(s, x) ==
    LET k == Cardinality({i \in 1..Len(s) : ~StrLess(x, s[i])})
    IN SubSeq(s, 1, k) \o <<x>> \o SubSeq(s, k + 1, Len(s))

\* A sort that leaves the slice as the map range filled it.
SortStringsNone(s) == s

\* sort.Strings(s): s in ascending order.
SortStrings(s) ==
    LET F[i \in 0..Len(s)] == IF i = 0 THEN <<>> ELSE InsertSorted(F[i - 1], s[i])
    IN F[Len(s)]

-----------------------------------------------------------------------------
(* loadModuleSet, buildEdges, modulePathOf, difference *)

\* The visit callback of loadModuleSet, on the accumulator [mods, mainMod].
LoadVisit(acc, p) ==
    IF Module[p].present
    THEN [mods |-> acc.mods \cup {Module[p].Path},
          mainMod |-> IF Module[p].Main THEN Module[p].Path ELSE acc.mainMod]
    ELSE acc

\* loadModuleSet after a successful load that returned the roots rs:
\* [mainMod, pkgs, mods].
loadModuleSet(rs, ords) ==
    LET vs == traverse(rs, ords)
        F[i \in 0..Len(vs)] ==
            IF i = 0 THEN [mods |-> {}, mainMod |-> EmptyStr]
            ELSE LoadVisit(F[i - 1], vs[i])
    IN [mainMod |-> F[Len(vs)].mainMod, pkgs |-> rs, mods |-> F[Len(vs)].mods]

\* What main does when a load reports an error: log.Fatal ends the process.
\* cont is the position main would go to after a successful load.
OnLoadErrorContinue(cont) == cont

OnLoadError(cont) == "fatal"

modulePathOf(p) ==
    IF p # nil /\ Module[p].present THEN Module[p].Path ELSE EmptyStr

\* edges[from][to] = struct{}{}, creating edges[from] when it is missing.
AddEdge(es, from, to) ==
    IF from \in DOMAIN es
    THEN [es EXCEPT ![from] = @ \cup {to}]
    ELSE [f \in DOMAIN es \cup {from} |-> IF f = from THEN {to} ELSE es[f]]

\* An inner loop body that keeps imports within one module.
BuildImportSelfLoops(acc, from, imp) ==
    LET to == modulePathOf(imp)
    IN IF to = EmptyStr THEN acc
       ELSE [edges |-> AddEdge(acc.edges, from, to), nodes |-> acc.nodes \cup {to}]

\* The body of buildEdges' inner loop for the import imp of a package of
\* module from, on the accumulator [edges, nodes].
BuildImport(acc, from, imp) ==
    LET to == modulePathOf(imp)
    IN IF to = EmptyStr \/ to = from THEN acc
       ELSE [edges |-> AddEdge(acc.edges, from, to), nodes |-> acc.nodes \cup {to}]

\* A visit callback that does not add the package's own module to nodes.
BuildVisitNoFrom(acc, p, ord) ==
    LET from == modulePathOf(p)
        imps == Imports[p]
        G[i \in 0..Len(ord)] ==
            IF i = 0 THEN [edges |-> acc.edges, nodes |-> acc.nodes]
            ELSE BuildImport(G[i - 1], from, imps[ord[i]])
    IN IF from = EmptyStr THEN acc ELSE G[Len(ord)]

\* The visit callback of buildEdges; ord is the order the range over
\* p.Imports yields its entries in.
BuildVisit(acc, p, ord) ==
    LET from == modulePathOf(p)
        imps == Imports[p]
        G[i \in 0..Len(ord)] ==
            IF i = 0 THEN [edges |-> acc.edges, nodes |-> acc.nodes \cup {from}]
            ELSE BuildImport(G[i - 1], from, imps[ord[i]])
    IN IF from = EmptyStr THEN acc ELSE G[Len(ord)]

\* buildEdges(pkgs): [edges, nodes].  ords orders the ranges of traverse,
\* iords those of the callback.
buildEdges(rs, ords, iords) ==
    LET vs == traverse(rs, ords)
        F[i \in 0..Len(vs)] ==
            IF i = 0 THEN [edges |-> <<>>, nodes |-> {}]
            ELSE BuildVisit(F[i - 1], vs[i], iords[vs[i]])
    IN F[Len(vs)]

\* A difference with its arguments exchanged.
differenceSwapped(a, b) == {k \in b : k \notin a}

\* difference(a, b): the keys of a that are not keys of b.
difference(a, b) == {k \in a : k \notin b}

\* The (from, to) pairs of an edges map.
EdgePairs(es) == UNION {{<<f, t>> : t \in es[f]} : f \in DOMAIN es}

-----------------------------------------------------------------------------
(* writeDot *)

testColor == "#ffdddd"
nonTestColor == "#ececff"
mainColor == "#ddffdd"

\* One line of output.  kind tells which Fprintf wrote it; a and b are the
\* %d arguments, name the %q argument, idx the joined N%d list, cls the
\* class name and text the remaining literal text.
Line(kind, a, b, name, idx, cls, text) ==
    [kind |-> kind, a |-> a, b |-> b, name |-> name, idx |-> idx, cls |-> cls,
     text |-> text]

\* The opening and closing code fence lines (three backquotes, the first
\* followed by the word mermaid).
FenceOpenLine == Line("fence", 0, 0, <<>>, <<>>, "", "mermaid")
FenceCloseLine == Line("fence", 0, 0, <<>>, <<>>, "", "")
GraphLine == Line("graph", 0, 0, <<>>, <<>>, "", "graph LR")
NodeLine(i, name) == Line("node", i, 0, name, <<>>, "", "")
EdgeLine(i, j) == Line("edge", i, j, <<>>, <<>>, "", "")
ClassDefLine(cls, color) == Line("classDef", 0, 0, <<>>, <<>>, cls, color)
ClassLine(sel, cls) == Line("class", 0, 0, <<>>, sel, cls, "")

\* The indexes map built from allNodes.
Indexes(allNodes) ==
    [name \in Range(allNodes) |->
        (CHOOSE i \in 1..Len(allNodes) :
            /\ allNodes[i] = name
            /\ \A j \in (i + 1)..Len(allNodes) : allNodes[j] # name) - 1]

\* indexes[name]: 0 when name is not a key.
IndexOf(indexes, name) == IF name \in DOMAIN indexes THEN indexes[name] ELSE 0

\* The node declaration lines.
NodeLines(allNodes) == [i \in 1..Len(allNodes) |-> NodeLine(i - 1, allNodes[i])]

\* The edge lines: for each from in froms, its targets sorted.
EdgeLines(es, indexes, froms, toOrds) ==
    LET TosLines(f) ==
            LET tos == SortStrings(toOrds[f])
            IN [k \in 1..Len(tos) |->
                   EdgeLine(IndexOf(indexes, f), IndexOf(indexes, tos[k]))]
        F[i \in 0..Len(froms)] ==
            IF i = 0 THEN <<>> ELSE F[i - 1] \o TosLines(froms[i])
    IN F[Len(froms)]

\* The indices (from 0) of the entries of allNodes that are in chosen.
Selected(allNodes, chosen) ==
    LET F[i \in 0..Len(allNodes)] ==
            IF i = 0 THEN <<>>
            ELSE IF allNodes[i] \in chosen THEN Append(F[i - 1], i - 1)
            ELSE F[i - 1]
    IN F[Len(allNodes)]

\* nodeColor(className, color, choose); chosen holds the names choose accepts.
nodeColor(allNodes, className, color, chosen) ==
    LET selected == Selected(allNodes, chosen)
    IN IF Len(selected) = 0 THEN <<>>
       ELSE <<ClassDefLine(className, color), ClassLine(selected, className)>>

\* The three choose functions writeDot passes to nodeColor.
ChooseMain(name, mm) == name = mm

\* A test-only choice that forgets the main module.
ChooseTestOnlyAny(name, mm, to) == name \in to

ChooseTestOnly(name, mm, to) == name \in to /\ name # mm

ChooseRegular(name, mm, to) == name \notin to /\ name # mm

\* The orders in which the ranges over the inner maps of edges can run.
TosOrders(es) ==
    {o \in [DOMAIN es -> UNION {KeyOrders(es[f]) : f \in DOMAIN es}] :
        \A f \in DOMAIN es : o[f] \in KeyOrders(es[f])}

\* writeDot of src/unnamed/part_000.  nodeOrd, fromOrd and toOrds are the
\* orders in which the ranges over nodes, edges and edges[f] yield the keys.
writeDot(mm, es, ns, to, nodeOrd, fromOrd, toOrds) ==
    LET allNodes == SortStrings(nodeOrd)
        indexes == Indexes(allNodes)
        froms == SortStrings(fromOrd)
        names == Range(allNodes)
    IN <<FenceOpenLine, GraphLine>>
       \o NodeLines(allNodes)
       \o EdgeLines(es, indexes, froms, toOrds)
       \o nodeColor(allNodes, "mainModule", mainColor,
                    {n \in names : ChooseMain(n, mm)})
       \o nodeColor(allNodes, "testOnlyDep", testColor,
                    {n \in names : ChooseTestOnly(n, mm, to)})
       \o nodeColor(allNodes, "regularDep", nonTestColor,
                    {n \in names : ChooseRegular(n, mm, to)})
       \o <<FenceCloseLine>>

\* writeDot of src/main.go.
writeDotV0(es, ns, to, nodeOrd, fromOrd, toOrds) ==
    LET allNodes == SortStrings(nodeOrd)
        indexes == Indexes(allNodes)
        froms == SortStrings(fromOrd)
    IN <<GraphLine>>
       \o NodeLines(allNodes)
       \o EdgeLines(es, indexes, froms, toOrds)
       \o <<ClassDefLine("red", "#ffdddd")>>
       \o (IF Cardinality(to) > 0
           THEN <<ClassLine(Selected(allNodes, to), "red")>>
           ELSE <<>>)

-----------------------------------------------------------------------------
(* main, one statement per step *)

TraverseIdle ==
    /\ roots = <<>>
    /\ seen = {}
    /\ q = <<>>
    /\ visits = <<>>
    /\ discards = 0
    /\ tpc = "idle"

\* The descriptors the resolver reports in a run of main: none, and the
\* modules "", "a" (flagged main), "ab" and "b" (flagged main or not).
RunDescs ==
    <<NoModule,
      [present |-> TRUE, Path |-> <<>>, Main |-> FALSE],
      [present |-> TRUE, Path |-> <<1>>, Main |-> TRUE],
      [present |-> TRUE, Path |-> <<1, 2>>, Main |-> FALSE],
      [present |-> TRUE, Path |-> <<2>>, Main |-> FALSE],
      [present |-> TRUE, Path |-> <<2>>, Main |-> TRUE]>>

\* The assignments of descriptors to packages.  Package objects are
\* interchangeable, so they are numbered in the order of their descriptors.
RunModules ==
    {[p \in Pkgs |-> RunDescs[k[p]]] :
        k \in {k \in [Pkgs -> 1..Len(RunDescs)] : k[1] <= k[2] /\ k[2] <= k[3]}}

\* The root lists a load can return.
RootLists == SeqsOf(Pkgs, 1, MaxRunRoots)

Init ==
    /\ Module \in RunModules
    /\ Imports \in Graphs(MaxRunEntries)
    /\ TraverseIdle
    /\ pc = "load1"
    /\ mainMod = EmptyStr
    /\ noTestPkgs = <<>>
    /\ noTestMods = {}
    /\ testPkgs = <<>>
    /\ withTestMods = {}
    /\ testOnly = {}
    /\ edges = <<>>
    /\ nodes = {}
    /\ out = <<>>
    /\ prog = "none"
    /\ loadErr = {}
    /\ loadCalls = [t \in BOOLEAN |-> 0]

\* `mainMod, _, noTestMods := loadModuleSet(false, "all")`
LoadNoTests ==
    /\ pc = "load1"
    /\ loadCalls' = [loadCalls EXCEPT ![FALSE] = @ + 1]
    /\ \/ /\ \E why \in {"err", "PrintErrors"} :
                loadErr' = loadErr \cup {<<FALSE, why>>}
          /\ pc' = OnLoadError("load2")
          /\ UNCHANGED <<mainMod, noTestPkgs, noTestMods>>
       \/ \E rs \in RootLists, ords \in ImportOrders :
             LET r == loadModuleSet(rs, ords)
             IN /\ mainMod' = r.mainMod
                /\ noTestPkgs' = r.pkgs
                /\ noTestMods' = r.mods
                /\ pc' = "load2"
                /\ UNCHANGED loadErr
    /\ UNCHANGED <<Module, Imports, travVars, testPkgs, withTestMods, testOnly,
                   edges, nodes, out, prog>>

\* `_, testPkgs, withTestMods := loadModuleSet(true, "all")`
LoadWithTests ==
    /\ pc = "load2"
    /\ loadCalls' = [loadCalls EXCEPT ![TRUE] = @ + 1]
    /\ \/ /\ \E why \in {"err", "PrintErrors"} :
                loadErr' = loadErr \cup {<<TRUE, why>>}
          /\ pc' = OnLoadError("diff")
          /\ UNCHANGED <<testPkgs, withTestMods>>
       \/ \E rs \in RootLists, ords \in ImportOrders :
             LET r == loadModuleSet(rs, ords)
             IN /\ testPkgs' = r.pkgs
                /\ withTestMods' = r.mods
                /\ pc' = "diff"
                /\ UNCHANGED loadErr
    /\ UNCHANGED <<Module, Imports, travVars, mainMod, noTestPkgs, noTestMods,
                   testOnly, edges, nodes, out, prog>>

\* `testOnly := difference(withTestMods, noTestMods)`
Difference ==
    /\ pc = "diff"
    /\ testOnly' = difference(withTestMods, noTestMods)
    /\ pc' = "build"
    /\ UNCHANGED <<Module, Imports, travVars, mainMod, noTestPkgs, noTestMods,
                   testPkgs, withTestMods, edges, nodes, out, prog, loadErr,
                   loadCalls>>

\* `edges, nodes := buildEdges(testPkgs)`
BuildEdges ==
    /\ pc = "build"
    /\ \E ords \in ImportOrders, iords \in ImportOrders :
          LET r == buildEdges(testPkgs, ords, iords)
          IN /\ edges' = r.edges
             /\ nodes' = r.nodes
    /\ pc' = "merge"
    /\ UNCHANGED <<Module, Imports, travVars, mainMod, noTestPkgs, noTestMods,
                   testPkgs, withTestMods, testOnly, out, prog, loadErr,
                   loadCalls>>

\* `for m := range testOnly { nodes[m] = struct{}{} }`
AddTestOnly ==
    /\ pc = "merge"
    /\ nodes' = nodes \cup testOnly
    /\ pc' = "write"
    /\ UNCHANGED <<Module, Imports, travVars, mainMod, noTestPkgs, noTestMods,
                   testPkgs, withTestMods, testOnly, edges, out, prog, loadErr,
                   loadCalls>>

\* `writeDot(os.Stdout, mainMod, edges, nodes, testOnly)` (part_000)
WriteDot ==
    /\ pc = "write"
    /\ \E nodeOrd \in KeyOrders(nodes), fromOrd \in KeyOrders(DOMAIN edges),
          toOrds \in TosOrders(edges) :
          out' = writeDot(mainMod, edges, nodes, testOnly, nodeOrd, fromOrd, toOrds)
    /\ prog' = "part_000"
    /\ pc' = "done"
    /\ UNCHANGED <<Module, Imports, travVars, mainMod, noTestPkgs, noTestMods,
                   testPkgs, withTestMods, testOnly, edges, nodes, loadErr,
                   loadCalls>>

\* `writeDot(os.Stdout, edges, nodes, testOnly)` (main.go)
WriteDotV0 ==
    /\ pc = "write"
    /\ \E nodeOrd \in KeyOrders(nodes), fromOrd \in KeyOrders(DOMAIN edges),
          toOrds \in TosOrders(edges) :
          out' = writeDotV0(edges, nodes, testOnly, nodeOrd, fromOrd, toOrds)
    /\ prog' = "main.go"
    /\ pc' = "done"
    /\ UNCHANGED <<Module, Imports, travVars, mainMod, noTestPkgs, noTestMods,
                   testPkgs, withTestMods, testOnly, edges, nodes, loadErr,
                   loadCalls>>

Next ==
    \/ LoadNoTests
    \/ LoadWithTests
    \/ Difference
    \/ BuildEdges
    \/ AddTestOnly
    \/ WriteDot
    \/ WriteDotV0

Spec == Init /\ [][Next]_vars

-----------------------------------------------------------------------------
(* writeDot on its own, on any arguments *)

\* The edges map holding the (from, to) pairs E.
MapOfPairs(E) == [f \in {e[1] : e \in E} |-> {e[2] : e \in {d \in E : d[1] = f}}]

\* The edges maps handed to writeDot.
DotEdgeMaps ==
    {MapOfPairs(E) : E \in {E \in SUBSET (Paths \X Paths) : Cardinality(E) <= MaxDotEdges}}

InitDot ==
    /\ Module = [p \in Pkgs |-> NoModule]
    /\ Imports = [p \in Pkgs |-> <<>>]
    /\ TraverseIdle
    /\ pc = "write"
    /\ mainMod \in Paths
    /\ noTestPkgs = <<>>
    /\ noTestMods = {}
    /\ testPkgs = <<>>
    /\ withTestMods = {}
    /\ testOnly \in SUBSET Paths
    /\ edges \in DotEdgeMaps
    /\ nodes \in SUBSET Paths
    /\ out = <<>>
    /\ prog = "none"
    /\ loadErr = {}
    /\ loadCalls = [t \in BOOLEAN |-> 0]

NextDot == WriteDot \/ WriteDotV0

SpecDot == InitDot /\ [][NextDot]_vars

-----------------------------------------------------------------------------
(* traverse: claims *)

\* The packages reachable from the roots through non-nil import entries.
ReachableFromRoots == ReachFrom(Range(roots))

\* C1: traverse calls visit at most once for any package and only for
\* packages reachable from the roots, and when it returns it has called
\* visit exactly once for every reachable package, so the number of calls
\* is the number of distinct reachable packages.
C1_VisitExactlyOnce ==
    /\ \A p \in Pkgs : Count(visits, p) <= 1
    /\ Range(visits) \subseteq ReachableFromRoots
    /\ tpc = "done" =>
          /\ \A p \in ReachableFromRoots : Count(visits, p) = 1
          /\ Len(visits) = Cardinality(ReachableFromRoots)

\* A finished traversal of a graph with a duplicated root, a self-import,
\* a package imported by two others, and an unreachable package.
C1_Witness ==
    /\ tpc = "done"
    /\ Len(roots) = 2 /\ roots[1] = roots[2]
    /\ \E p \in Range(visits) : p \in ImportsOf(p)
    /\ \E a, b, c \in Range(visits) :
          a # b /\ a # c /\ b # c /\ c \in ImportsOf(a) /\ c \in ImportsOf(b)
    /\ discards > 0

\* C2: traverse terminates: the work list eventually becomes empty and
\* traverse returns, whatever the graph.
C2_Terminates == <>(tpc = "done" /\ q = <<>>)

\* A finished traversal of two packages that import each other, in which
\* an already-visited import was re-enqueued and dropped at dequeue time.
C2_Witness ==
    /\ tpc = "done"
    /\ q = <<>>
    /\ \E a, b \in Range(visits) :
          a # b /\ b \in ImportsOf(a) /\ a \in ImportsOf(b)
    /\ \E p \in Range(visits) : p \in ImportsOf(p)
    /\ discards > 0

-----------------------------------------------------------------------------
(* main: claims *)

\* The owning-module identifier of a package: empty when it has none.
OwnerOf(p) == IF Module[p].present THEN Module[p].Path ELSE EmptyStr

\* The module identifiers owned by the packages of R.
ModsOf(R) == {Module[p].Path : p \in {r \in R : Module[r].present}}

\* The packages reachable in the test-exclusive and test-inclusive loads.
ReachNoTests == ReachFrom(Range(noTestPkgs))
ReachWithTests == ReachFrom(Range(testPkgs))

\* The module pairs of the imports of the packages reachable with tests.
RefEdges ==
    {e \in {<<OwnerOf(p), OwnerOf(r)>> : p \in ReachWithTests, r \in Pkgs} :
        /\ e[1] # EmptyStr
        /\ e[2] # EmptyStr
        /\ e[1] # e[2]
        /\ \E p \in ReachWithTests : \E r \in ImportsOf(p) :
              OwnerOf(p) = e[1] /\ OwnerOf(r) = e[2]}

\* C3: the edge set buildEdges returns is exactly the set of pairs
\* (module(p), module(q)) with p reachable from the roots, q a direct
\* import of p, both identifiers non-empty and different.
C3_EdgesExact ==
    pc \in {"merge", "write", "done"} => EdgePairs(edges) = RefEdges

\* buildEdges has returned for a graph with an import inside one module,
\* two package imports that map to the same module pair, and an import
\* without owning module or a nil import entry.
C3_Witness ==
    /\ pc = "merge"
    /\ \E p \in ReachWithTests : \E r \in ImportsOf(p) :
          OwnerOf(p) # EmptyStr /\ OwnerOf(p) = OwnerOf(r) /\ p # r
    /\ \E p1, p2 \in ReachWithTests : \E r1 \in ImportsOf(p1) : \E r2 \in ImportsOf(p2) :
          /\ <<p1, r1>> # <<p2, r2>>
          /\ <<OwnerOf(p1), OwnerOf(r1)>> = <<OwnerOf(p2), OwnerOf(r2)>>
          /\ <<OwnerOf(p1), OwnerOf(r1)>> \in EdgePairs(edges)
    /\ Cardinality(EdgePairs(edges)) = 1

\* C4 (as claimed): the node set handed to writeDot never contains the
\* empty module identifier.
C4_NoEmptyNode ==
    pc \in {"write", "done"} => EmptyStr \notin nodes

\* C5: the test-only set handed to writeDot is the set of module
\* identifiers owned by packages reachable with tests minus those owned by
\* packages reachable without; it is empty when the two universes are
\* equal; and difference(a, b) holds exactly the elements of a not in b.
C5_TestOnlyIsDifference ==
    pc \in {"build", "merge", "write", "done"} =>
        /\ testOnly = ModsOf(ReachWithTests) \ ModsOf(ReachNoTests)
        /\ ModsOf(ReachWithTests) = ModsOf(ReachNoTests) => testOnly = {}
        /\ \A x \in Paths : x \in testOnly <=> (x \in withTestMods /\ x \notin noTestMods)

\* The test-only set is computed and not empty, and the test-exclusive
\* universe is not a subset of the test-inclusive one.
C5_Witness ==
    /\ pc = "write"
    /\ testOnly # {}
    /\ ~(noTestMods \subseteq withTestMods)
    /\ noTestMods \cap withTestMods # {}

\* How many of the modules owned by reachable packages are flagged main.
MainFlagged ==
    {Module[p].Path :
        p \in {r \in ReachNoTests \cup ReachWithTests :
                  Module[r].present /\ Module[r].Main}}

\* The main module of the graph: the flagged module reachable without tests.
RefMain ==
    LET M == {Module[p].Path :
                 p \in {r \in ReachNoTests : Module[r].present /\ Module[r].Main}}
    IN IF M = {} THEN EmptyStr ELSE CHOOSE m \in M : TRUE

RefTestOnly == ModsOf(ReachWithTests) \ ModsOf(ReachNoTests)

RefNodes ==
    ({OwnerOf(p) : p \in ReachWithTests} \ {EmptyStr})
        \cup {e[2] : e \in RefEdges} \cup RefTestOnly

\* The number of elements of S below n in lexicographic order.
Rank(n, S) == Cardinality({m \in S : StrLess(m, n)})

\* The element of S with i elements of S below it.
NthSmallest(S, i) == CHOOSE n \in S : Rank(n, S) = i

\* The indices in RefNodes of the elements of M, ascending.
RefIndices(M) ==
    [j \in 1..Cardinality(M) |-> Rank(NthSmallest(M, j - 1), RefNodes)]

\* The number of pairs of E before e, sources first, then targets.
PairRank(e, E) ==
    Cardinality({d \in E : StrLess(d[1], e[1]) \/ (d[1] = e[1] /\ StrLess(d[2], e[2]))})

RefNodeLines ==
    [i \in 1..Cardinality(RefNodes) |-> NodeLine(i - 1, NthSmallest(RefNodes, i - 1))]

RefEdgeLines ==
    [k \in 1..Cardinality(RefEdges) |->
        LET e == CHOOSE d \in RefEdges : PairRank(d, RefEdges) = k - 1
        IN EdgeLine(Rank(e[1], RefNodes), Rank(e[2], RefNodes))]

RefGroup(cls, color, M) ==
    IF M = {} THEN <<>>
    ELSE <<ClassDefLine(cls, color), ClassLine(RefIndices(M), cls)>>

\* The output fixed by the graph alone, for each revision.
RefOutput ==
    IF prog = "part_000"
    THEN <<FenceOpenLine, GraphLine>> \o RefNodeLines \o RefEdgeLines
         \o RefGroup("mainModule", mainColor, RefNodes \cap {RefMain})
         \o RefGroup("testOnlyDep", testColor, (RefNodes \cap RefTestOnly) \ {RefMain})
         \o RefGroup("regularDep", nonTestColor, (RefNodes \ RefTestOnly) \ {RefMain})
         \o <<FenceCloseLine>>
    ELSE <<GraphLine>> \o RefNodeLines \o RefEdgeLines
         \o <<ClassDefLine("red", testColor)>>
         \o (IF RefTestOnly = {} THEN <<>>
             ELSE <<ClassLine(RefIndices(RefNodes \cap RefTestOnly), "red")>>)

\* C8: for a graph with at most one module flagged main, the lines written
\* are fixed by the graph alone, whatever the orders the traversal and the
\* ranges over the node, edge and test-only sets ran in; node index i is
\* the module identifier with i identifiers below it.
C8_OutputDeterministic ==
    (pc = "done" /\ Cardinality(MainFlagged) <= 1) =>
        /\ out = RefOutput
        /\ \A k \in 1..Len(out) :
              out[k].kind = "node" => Rank(out[k].name, nodes) = out[k].a

\* A finished run with three nodes, edges from two sources, a main module
\* and a test-only module, in a graph where a range order was free.
C8_Witness ==
    /\ pc = "done"
    /\ prog = "part_000"
    /\ Cardinality(MainFlagged) = 1
    /\ Cardinality(nodes) = 3
    /\ Cardinality(DOMAIN edges) >= 2
    /\ testOnly # {}
    /\ \E p \in ReachWithTests : Len(Imports[p]) = 2

\* C9: a load that reports an error ends the run in the failed state with
\* nothing written; writeDot runs only after both loads ended without
\* error; no load is attempted twice.
C9_LoadErrorAborts ==
    /\ loadErr # {} => (pc = "fatal" /\ out = <<>>)
    /\ pc = "fatal" => (loadErr # {} /\ out = <<>>)
    /\ \A t \in BOOLEAN : loadCalls[t] <= 1
    /\ (pc \in {"write", "done"} \/ out # <<>>) =>
          /\ loadCalls[FALSE] = 1
          /\ loadCalls[TRUE] = 1
          /\ loadErr = {}

\* The second load failed after the first one succeeded.
C9_Witness ==
    /\ pc = "fatal"
    /\ <<TRUE, "PrintErrors">> \in loadErr
    /\ loadCalls[FALSE] = 1
    /\ noTestMods # {}
    /\ out = <<>>

\* Whether a node line declares index i, and the name it declares.
Declared(i) == \E k \in 1..Len(out) : out[k].kind = "node" /\ out[k].a = i
DeclaredName(i) ==
    out[CHOOSE k \in 1..Len(out) : out[k].kind = "node" /\ out[k].a = i].name

\* The edge lines of the output.
EdgeLineIdx == {k \in 1..Len(out) : out[k].kind = "edge"}

\* C10: both endpoints of every edge buildEdges returns are in the node set
\* given to writeDot, and every edge line refers to the indices of the
\* declared nodes named by its endpoints.
C10_EdgeEndpointsDeclared ==
    /\ pc \in {"write", "done"} =>
          \A e \in EdgePairs(edges) : e[1] \in nodes /\ e[2] \in nodes
    /\ pc = "done" =>
          /\ \A k \in EdgeLineIdx :
                /\ Declared(out[k].a) /\ Declared(out[k].b)
                /\ <<DeclaredName(out[k].a), DeclaredName(out[k].b)>> \in EdgePairs(edges)
          /\ \A e \in EdgePairs(edges) :
                \E k \in EdgeLineIdx :
                    /\ Declared(out[k].a) /\ Declared(out[k].b)
                    /\ DeclaredName(out[k].a) = e[1]
                    /\ DeclaredName(out[k].b) = e[2]
          /\ Cardinality(EdgeLineIdx) = Cardinality(EdgePairs(edges))

\* A finished run with two edges, one of them into a module that is the
\* source of no edge and not at index 0.
C10_Witness ==
    /\ pc = "done"
    /\ Cardinality(EdgePairs(edges)) >= 2
    /\ \E e \in EdgePairs(edges) :
          e[2] \notin DOMAIN edges /\ Rank(e[2], nodes) > 0

-----------------------------------------------------------------------------
(* writeDot: claims *)

\* The indices a class line lists under the class cls.
Listed(cls) ==
    UNION {Range(out[k].idx) : k \in {j \in 1..Len(out) : out[j].kind = "class" /\ out[j].cls = cls}}

\* How often index i is listed in the class lines.
TimesListed(i) ==
    Cardinality({<<k, j>> \in (1..Len(out)) \X (1..Cardinality(nodes)) :
                    out[k].kind = "class" /\ j <= Len(out[k].idx) /\ out[k].idx[j] = i})

\* The group of a name by the precedence main, test-only, regular.
GroupOf(name) ==
    IF name = mainMod THEN "mainModule"
    ELSE IF name \in testOnly THEN "testOnlyDep"
    ELSE "regularDep"

\* C6: every node index is listed in exactly one of the groups mainModule,
\* testOnlyDep and regularDep, the one the precedence main, test-only,
\* regular gives its identifier.
C6_OneGroupByPrecedence ==
    (pc = "done" /\ prog = "part_000") =>
        \A i \in 0..(Cardinality(nodes) - 1) :
            /\ Declared(i)
            /\ TimesListed(i) = 1
            /\ \A cls \in {"mainModule", "testOnlyDep", "regularDep"} :
                  i \in Listed(cls) <=> cls = GroupOf(DeclaredName(i))

\* writeDot has written a graph whose main module is in the test-only set,
\* beside another test-only node and a regular one.
C6_Witness ==
    /\ pc = "done"
    /\ prog = "part_000"
    /\ mainMod \in nodes \cap testOnly
    /\ (nodes \cap testOnly) \ {mainMod} # {}
    /\ nodes \ testOnly # {}
    /\ Rank(mainMod, nodes) > 0

\* The members of each classification group, by revision.
GroupMembers(cls) ==
    IF cls = "red" THEN nodes \cap testOnly
    ELSE {n \in nodes : GroupOf(n) = cls}

\* C7 (as claimed): a classification group without member writes no line,
\* neither a classDef line nor a class line.
C7_NoLineForEmptyGroup ==
    pc = "done" =>
        \A cls \in {"mainModule", "testOnlyDep", "regularDep", "red"} :
            GroupMembers(cls) = {} =>
                ~\E k \in 1..Len(out) : out[k].cls = cls

====
